---- MODULE Spec2Model ----
(***************************************************************************)
(* couch-persona: the login / provisioning pipeline, gateway-session      *)
(* validation, logout and the app lifecycle of the HTTP server, as a      *)
(* state machine.  Every asynchronous store call of a handler is one      *)
(* action: the store performs the call and the handler's callback runs.   *)
(* Requests in different slots interleave call by call.                   *)
(***************************************************************************)
EXTENDS Integers, Sequences, FiniteSets, TLC

VARIABLES
  dbs,        \* the document store: database name -> [writer, docs]
  native,     \* native (CouchDB) sessions that are live: a set of tokens
  issued,     \* history: token -> user name the native session was issued to
  nextToken,  \* number of native sessions issued so far
  nextUuid,   \* number of uuid.v1() values drawn so far
  reqs,       \* request slot -> the request in flight (or finished) there
  started,    \* number of requests received so far
  faults,     \* number of store calls that failed in transport so far
  loggedOut   \* history: tokens whose logout has been answered and that no later login recorded

vars == <<dbs, native, issued, nextToken, nextUuid, reqs, started, faults, loggedOut>>

\* ------------------------------------------------------------------ bounds

\* Requests received in one behaviour.
MaxRequests == 3

\* Requests in flight at the same time.
NSlots == 2

\* Store (or trust service) calls that fail in transport in one behaviour.
MaxFaults == 1

Slots == 1..NSlots

\* ------------------------------------------------------------------ inputs

Emails == {"alice@example.com", "bob@example.com"}

\* Assertions a client may post: one the trust service verifies for each email, and a forged one.
Assertions == {"assertion:alice@example.com", "assertion:bob@example.com", "assertion:forged"}

\* App keys a client may name; K1 is registered from the start (by alice), K2 is not.
AppKeys == {"K1", "K2"}

\* Display names a client may send for a new app (undefined: no name in the body).
AppNames == {"undefined", "todo"}

Undefined == "undefined"

\* the JavaScript null document / null error
Null == [null |-> TRUE]

\* ------------------------------------------------------------- pure helpers

DB_PREFIX == "couch_persona_"

\* url.format(host) for the default HOST_URL
HostUrl == "http://127.0.0.1:5000/"

\* underscore's _.extend(a, b): b's attributes copied over a's
Extend(a, b) ==
  [k \in (DOMAIN a) \cup (DOMAIN b) |-> IF k \in DOMAIN b THEN b[k] ELSE a[k]]

\* encodeURIComponent on the addresses of the model ("@" becomes "%40")
EncodeURIComponent(s) ==
  CASE s = "alice@example.com" -> "alice%40example.com"
    [] s = "bob@example.com" -> "bob%40example.com"
    [] OTHER -> s

\* crypto.createHash('md5').update(s).digest("hex") on the addresses of the model
Md5Hex(s) ==
  CASE s = "alice@example.com" -> "c160f8cc69a4f0bf2b0362752353d060"
    [] s = "bob@example.com" -> "4b9bb80620f03eb3719e0a061c14283d"
    [] OTHER -> "d41d8cd98f00b204e9800998ecf8427e"

createUserDoc(email) ==
  [_id |-> "org.couchdb.user:" \o EncodeURIComponent(email),
   type |-> "user",
   name |-> email,
   roles |-> <<"browserid">>,
   browserid |-> TRUE]

\* the error objects the steps hand to the final callback
ErrObj(status, kind) == [status |-> status, json |-> [error |-> kind]]

\* the n-th value of uuid.v1(), and the n-th native session token
Uuid(n) == "uuid-" \o ToString(n)
Token(n) == "tok-" \o ToString(n)

\* the Set-Cookie value built from a native token, as its three parts
AuthTokenCookie(token) == <<"AuthSession=", token, "; Path=/; HttpOnly">>

\* ----------------------------------------------------- the document store

\* A document of a database, null when the database or the document is missing.
GetDocument(d, db, id) ==
  IF db \in DOMAIN d /\ id \in DOMAIN d[db].docs THEN d[db].docs[id] ELSE Null

\* Error of a write: 404 without the database, 409 on a revision conflict, 0 none.
PutDocumentErr(d, db, id, doc) ==
  IF db \notin DOMAIN d THEN 404
  ELSE IF id \in DOMAIN d[db].docs
       THEN IF "_rev" \in DOMAIN doc /\ doc._rev = d[db].docs[id]._rev THEN 0 ELSE 409
       ELSE IF "_rev" \in DOMAIN doc THEN 409 ELSE 0

\* What the store keeps of a written document: a new revision, and in _users
\* the password replaced by the key derived from it.
StoredDoc(d, db, id, doc) ==
  LET rev == IF id \in DOMAIN d[db].docs THEN d[db].docs[id]._rev + 1 ELSE 1
      keep == IF db = "_users" /\ "password" \in DOMAIN doc
              THEN [k \in ((DOMAIN doc) \ {"password"}) \cup {"derived_key"} |->
                      IF k = "derived_key" THEN doc.password ELSE doc[k]]
              ELSE doc
  IN Extend(keep, [_rev |-> rev])

PutDocument(d, db, id, doc) ==
  [d EXCEPT ![db].docs =
     [k \in (DOMAIN @) \cup {id} |-> IF k = id THEN StoredDoc(d, db, id, doc) ELSE @[k]]]

\* Deleting a missing document is a 404.
DeleteDocumentErr(d, db, id) ==
  IF db \in DOMAIN d /\ id \in DOMAIN d[db].docs THEN 0 ELSE 404

DeleteDocument(d, db, id) ==
  [d EXCEPT ![db].docs = [k \in (DOMAIN @) \ {id} |-> @[k]]]

\* Creating an existing database is a 412.
CreateDatabaseErr(d, name) == IF name \in DOMAIN d THEN 412 ELSE 0

CreateDatabase(d, name) ==
  [k \in (DOMAIN d) \cup {name} |->
     IF k = name THEN [writer |-> "", docs |-> <<>>] ELSE d[k]]

SecureDatabaseErr(d, name) == IF name \in DOMAIN d THEN 0 ELSE 404

\* The access-control policy: the one user who may write.
SecureDatabase(d, name, user) == [d EXCEPT ![name].writer = user]

DeleteDatabaseErr(d, name) == IF name \in DOMAIN d THEN 0 ELSE 404

DeleteDatabase(d, name) == [k \in (DOMAIN d) \ {name} |-> d[k]]

\* The store's credential check: the user exists and the secret derives its key.
CouchSessionErr(d, username, password) ==
  LET id == "org.couchdb.user:" \o EncodeURIComponent(username)
      doc == GetDocument(d, "_users", id)
  IN IF doc # Null /\ "derived_key" \in DOMAIN doc /\ doc.derived_key = password
     THEN 0 ELSE 401

\* The trust service: the verified body for an assertion.
PersonaVerify(assert) ==
  CASE assert = "assertion:alice@example.com" -> [status |-> "okay", email |-> "alice@example.com"]
    [] assert = "assertion:bob@example.com" -> [status |-> "okay", email |-> "bob@example.com"]
    [] OTHER -> [status |-> "failure"]

\* ------------------------------------------------------------- requests

\* A free slot: no request was received there, or its handler has finished.
IdleReq ==
  [kind |-> "idle", pc |-> "done", key |-> Undefined, assert |-> Undefined,
   appkey |-> Undefined, cookie |-> Undefined, name |-> Undefined,
   personaBody |-> Null, userDoc |-> Null, sessionDoc |-> Null, appDoc |-> Null, token |-> Undefined, err |-> Null,
   janus |-> "pending", sawRecord |-> "unread", sawAuth |-> "unchecked",
   fault |-> FALSE, resp |-> <<>>, calls |-> <<>>]

\* sendJSON: one response written to the client
sendJSON(q, status, content, hdrs) ==
  [q EXCEPT !.resp = Append(@, [status |-> status, body |-> content,
                                 headers |-> Extend(("Content-Type" :> "application/json"), hdrs)]),
            !.pc = "done"]

\* a store (or trust service) call made by the request, in order
Call(q, what) == [q EXCEPT !.calls = Append(@, what)]

\* A request is received in the first slot whose handler has finished.
Free(r) ==
  /\ reqs[r].pc = "done"
  /\ \A o \in Slots : o < r => reqs[o].pc # "done"
  /\ started < MaxRequests

\* The outcomes of a call's transport: it may fail while faults remain.
Transport == IF faults < MaxFaults THEN BOOLEAN ELSE {FALSE}

\* The fault count after a call whose transport failed (f) or not.
Faulted(f) == IF f THEN faults + 1 ELSE faults

\* The store when the server starts: the system databases and the app K1 of alice.
InitDbs ==
  [k \in {"_users", "janus_session", "K1"} |->
     IF k = "K1"
     THEN [writer |-> "alice@example.com",
           docs |-> [i \in {"data"} |-> [dev |-> "alice@example.com", name |-> "todo", _rev |-> 1]]]
     ELSE [writer |-> "", docs |-> <<>>]]

Init ==
  /\ dbs = InitDbs
  /\ native = {}
  /\ issued = <<>>
  /\ nextToken = 0
  /\ nextUuid = 0
  /\ reqs = [r \in Slots |-> IdleReq]
  /\ started = 0
  /\ faults = 0
  /\ loggedOut = {}

\* a store call of the request that failed in transport
Fault(q, f) == [q EXCEPT !.fault = @ \/ f]

\* ------------------------------------------------------------ POST /login/

\* The handler's synchronous part: the developer branch returns without a
\* response, any other body starts the waterfall.
PostLogin(r) ==
  /\ Free(r)
  /\ \E key \in {"developer", Undefined}, a \in Assertions, k \in AppKeys :
       reqs' = [reqs EXCEPT ![r] =
                  [IdleReq EXCEPT !.kind = "login", !.key = key, !.assert = a, !.appkey = k,
                                  !.pc = IF key = "developer" THEN "done" ELSE "verifyAssert"]]
  /\ started' = started + 1
  /\ UNCHANGED <<dbs, native, issued, nextToken, nextUuid, faults, loggedOut>>

\* Variant of LoginDone: the waterfall's error is not looked at.
LoginDone_okOnError(q, err) ==
  IF err # Null
  THEN sendJSON([q EXCEPT !.err = err], 200, [ok |-> TRUE], <<>>)
  ELSE sendJSON(q, 200,
                [ok |-> TRUE,
                 db |-> HostUrl \o "db/" \o q.userDoc.currentDb,
                 name |-> q.userDoc.name],
                ("Set-Cookie" :> q.userDoc.authToken))

\* The waterfall's completion callback of the login.
LoginDone(q, err) ==
  IF err # Null
  THEN sendJSON([q EXCEPT !.err = err], err.status, err.json, <<>>)
  ELSE sendJSON(q, 200,
                [ok |-> TRUE,
                 db |-> HostUrl \o "db/" \o q.userDoc.currentDb,
                 name |-> q.userDoc.name],
                ("Set-Cookie" :> q.userDoc.authToken))

verifyAssert(r) ==
  /\ reqs[r].kind = "login" /\ reqs[r].pc = "verifyAssert"
  /\ \E f \in Transport :
       /\ faults' = Faulted(f)
       /\ LET q == Fault(Call(reqs[r], "verifyAssert"), f)
              body == PersonaVerify(q.assert)
          IN reqs' = [reqs EXCEPT ![r] =
                        IF f \/ body.status = "failure"
                        THEN LoginDone(q, ErrObj(400, "error_verifying_assertion"))
                        ELSE [q EXCEPT !.personaBody = body, !.pc = "ensureUser"]]
  /\ UNCHANGED <<dbs, native, issued, nextToken, nextUuid, started, loggedOut>>

\* Variant of EnsureUserDoc: the secret is drawn anew on every login.
EnsureUserDoc_regenerates(doc, email, uuid) ==
  Extend(IF doc # Null THEN Extend(doc, createUserDoc(email)) ELSE createUserDoc(email),
         [password |-> uuid, thepassword |-> uuid])

\* The user document ensureUser writes, from the stored one (or null) and a fresh uuid.
EnsureUserDoc(doc, email, uuid) ==
  IF doc # Null
  THEN Extend(doc, createUserDoc(email))
  ELSE Extend(createUserDoc(email), [password |-> uuid, thepassword |-> uuid])

\* ensureUser up to its write: the read of the user document and its callback.
ensureUser(r) ==
  /\ reqs[r].kind = "login" /\ reqs[r].pc = "ensureUser"
  /\ \E f \in Transport :
       /\ faults' = Faulted(f)
       /\ LET q == Fault(Call(reqs[r], "getDocument:_users"), f)
              email == q.personaBody.email
              userId == createUserDoc(email)._id
              doc == GetDocument(dbs, "_users", userId)
          IN IF f
             THEN /\ reqs' = [reqs EXCEPT ![r] = LoginDone(q, ErrObj(400, "error_retrieving_user"))]
                  /\ UNCHANGED nextUuid
             ELSE /\ reqs' = [reqs EXCEPT ![r] =
                                [q EXCEPT !.userDoc = EnsureUserDoc(doc, email, Uuid(nextUuid + 1)),
                                          !.pc = "ensureUser_put"]]
                  /\ nextUuid' = IF doc = Null THEN nextUuid + 1 ELSE nextUuid
  /\ UNCHANGED <<dbs, native, issued, nextToken, started, loggedOut>>

\* The write of ensureUser and its callback.
ensureUser_put(r) ==
  /\ reqs[r].kind = "login" /\ reqs[r].pc = "ensureUser_put"
  /\ \E f \in Transport :
       /\ faults' = Faulted(f)
       /\ LET q == Fault(Call(reqs[r], "putDocument:_users"), f)
              userId == q.userDoc._id
              err == IF f THEN 500 ELSE PutDocumentErr(dbs, "_users", userId, q.userDoc)
          IN IF err = 0
             THEN /\ dbs' = PutDocument(dbs, "_users", userId, q.userDoc)
                  /\ reqs' = [reqs EXCEPT ![r] = [q EXCEPT !.pc = "verifyApp"]]
             ELSE /\ reqs' = [reqs EXCEPT ![r] = LoginDone(q, ErrObj(400, "error_creating_user"))]
                  /\ UNCHANGED dbs
  /\ UNCHANGED <<native, issued, nextToken, nextUuid, started, loggedOut>>

\* The tenant database name of an app record and a user name.
CurrentDb(doc, name) == DB_PREFIX \o doc.dev \o "_" \o doc.name \o "_" \o Md5Hex(name)

verifyApp(r) ==
  /\ reqs[r].kind = "login" /\ reqs[r].pc = "verifyApp"
  /\ \E f \in Transport :
       /\ faults' = Faulted(f)
       /\ LET q == Fault(Call(reqs[r], "getDocument:app"), f)
              doc == GetDocument(dbs, q.appkey, "data")
          IN reqs' = [reqs EXCEPT ![r] =
                        IF ~f /\ doc # Null
                        THEN [q EXCEPT !.userDoc = Extend(@, [currentDb |-> CurrentDb(doc, q.userDoc.name)]),
                                       !.appDoc = doc,
                                       !.pc = "ensureDatabase"]
                        ELSE LoginDone(q, ErrObj(400, "error_verifying_app"))]
  /\ UNCHANGED <<dbs, native, issued, nextToken, nextUuid, started, loggedOut>>

\* Variant of ensureDatabase: a database that exists already is an error.
ensureDatabase_strict(r) ==
  /\ reqs[r].kind = "login" /\ reqs[r].pc = "ensureDatabase"
  /\ \E f \in Transport :
       /\ faults' = Faulted(f)
       /\ LET q == Fault(Call(reqs[r], "createDatabase"), f)
              err == IF f THEN 500 ELSE CreateDatabaseErr(dbs, q.userDoc.currentDb)
          IN /\ dbs' = IF err = 0 THEN CreateDatabase(dbs, q.userDoc.currentDb) ELSE dbs
             /\ reqs' = [reqs EXCEPT ![r] =
                           IF err = 0
                           THEN [q EXCEPT !.pc = "ensureUserSecurity"]
                           ELSE LoginDone(q, ErrObj(400, "error_creating_database"))]
  /\ UNCHANGED <<native, issued, nextToken, nextUuid, started, loggedOut>>

\* Variant of ensureDatabase: a database that exists already is dropped and
\* created anew.
ensureDatabase_recreates(r) ==
  /\ reqs[r].kind = "login" /\ reqs[r].pc = "ensureDatabase"
  /\ \E f \in Transport :
       /\ faults' = Faulted(f)
       /\ LET q == Fault(Call(reqs[r], "createDatabase"), f)
              err == IF f THEN 500 ELSE CreateDatabaseErr(dbs, q.userDoc.currentDb)
          IN /\ dbs' = IF err = 0
                       THEN CreateDatabase(dbs, q.userDoc.currentDb)
                       ELSE IF err = 412
                            THEN CreateDatabase(DeleteDatabase(dbs, q.userDoc.currentDb), q.userDoc.currentDb)
                            ELSE dbs
             /\ reqs' = [reqs EXCEPT ![r] =
                           IF err = 0 \/ err = 412
                           THEN [q EXCEPT !.pc = "ensureUserSecurity"]
                           ELSE LoginDone(q, ErrObj(400, "error_creating_database"))]
  /\ UNCHANGED <<native, issued, nextToken, nextUuid, started, loggedOut>>

ensureDatabase(r) ==
  /\ reqs[r].kind = "login" /\ reqs[r].pc = "ensureDatabase"
  /\ \E f \in Transport :
       /\ faults' = Faulted(f)
       /\ LET q == Fault(Call(reqs[r], "createDatabase"), f)
              err == IF f THEN 500 ELSE CreateDatabaseErr(dbs, q.userDoc.currentDb)
          IN /\ dbs' = IF err = 0 THEN CreateDatabase(dbs, q.userDoc.currentDb) ELSE dbs
             /\ reqs' = [reqs EXCEPT ![r] =
                           IF err = 0 \/ err = 412
                           THEN [q EXCEPT !.pc = "ensureUserSecurity"]
                           ELSE LoginDone(q, ErrObj(400, "error_creating_database"))]
  /\ UNCHANGED <<native, issued, nextToken, nextUuid, started, loggedOut>>

\* Variant of ensureUserSecurity: when securing fails, the tenant database is
\* deleted again.
ensureUserSecurity_rollback(r) ==
  /\ reqs[r].kind = "login" /\ reqs[r].pc = "ensureUserSecurity"
  /\ \E f \in Transport :
       /\ faults' = Faulted(f)
       /\ LET q == Fault(Call(reqs[r], "secureDatabase"), f)
              err == IF f THEN 500 ELSE SecureDatabaseErr(dbs, q.userDoc.currentDb)
          IN /\ dbs' = IF err = 0
                       THEN SecureDatabase(dbs, q.userDoc.currentDb, q.userDoc.name)
                       ELSE IF DeleteDatabaseErr(dbs, q.userDoc.currentDb) = 0
                            THEN DeleteDatabase(dbs, q.userDoc.currentDb)
                            ELSE dbs
             /\ reqs' = [reqs EXCEPT ![r] =
                           IF err = 0
                           THEN [q EXCEPT !.pc = "createSessionToken"]
                           ELSE LoginDone(q, ErrObj(400, "error_securing_database"))]
  /\ UNCHANGED <<native, issued, nextToken, nextUuid, started, loggedOut>>

\* Variant of ensureUserSecurity: a failure to secure is passed over.
ensureUserSecurity_continues(r) ==
  /\ reqs[r].kind = "login" /\ reqs[r].pc = "ensureUserSecurity"
  /\ \E f \in Transport :
       /\ faults' = Faulted(f)
       /\ LET q == Fault(Call(reqs[r], "secureDatabase"), f)
              err == IF f THEN 500 ELSE SecureDatabaseErr(dbs, q.userDoc.currentDb)
          IN /\ dbs' = IF err = 0 THEN SecureDatabase(dbs, q.userDoc.currentDb, q.userDoc.name) ELSE dbs
             /\ reqs' = [reqs EXCEPT ![r] = [q EXCEPT !.pc = "createSessionToken"]]
  /\ UNCHANGED <<native, issued, nextToken, nextUuid, started, loggedOut>>

ensureUserSecurity(r) ==
  /\ reqs[r].kind = "login" /\ reqs[r].pc = "ensureUserSecurity"
  /\ \E f \in Transport :
       /\ faults' = Faulted(f)
       /\ LET q == Fault(Call(reqs[r], "secureDatabase"), f)
              err == IF f THEN 500 ELSE SecureDatabaseErr(dbs, q.userDoc.currentDb)
          IN /\ dbs' = IF err = 0 THEN SecureDatabase(dbs, q.userDoc.currentDb, q.userDoc.name) ELSE dbs
             /\ reqs' = [reqs EXCEPT ![r] =
                           IF err = 0
                           THEN [q EXCEPT !.pc = "createSessionToken"]
                           ELSE LoginDone(q, ErrObj(400, "error_securing_database"))]
  /\ UNCHANGED <<native, issued, nextToken, nextUuid, started, loggedOut>>

createSessionToken(r) ==
  /\ reqs[r].kind = "login" /\ reqs[r].pc = "createSessionToken"
  /\ \E f \in Transport :
       /\ faults' = Faulted(f)
       /\ LET q == Fault(Call(reqs[r], "createCouchSession"), f)
              username == q.userDoc.name
              password == q.userDoc.thepassword
              err == IF f THEN 500 ELSE CouchSessionErr(dbs, username, password)
              token == Token(nextToken + 1)
          IN IF err = 0
             THEN /\ native' = native \cup {token}
                  /\ issued' = (token :> username) @@ issued
                  /\ nextToken' = nextToken + 1
                  /\ reqs' = [reqs EXCEPT ![r] =
                                [q EXCEPT !.userDoc = Extend(@, [authToken |-> AuthTokenCookie(token)]),
                                          !.token = token,
                                          !.pc = "createJanusSession"]]
             ELSE /\ reqs' = [reqs EXCEPT ![r] = LoginDone(q, ErrObj(400, "error_creating_session"))]
                  /\ UNCHANGED <<native, issued, nextToken>>
  /\ UNCHANGED <<dbs, nextUuid, started, loggedOut>>

\* Variant of createJanusSession: the response is sent without the record being written.
createJanusSession_unrecorded(r) ==
  /\ reqs[r].kind = "login" /\ reqs[r].pc = "createJanusSession"
  /\ reqs' = [reqs EXCEPT ![r] = LoginDone(Call(reqs[r], "putDocument:janus_session"), Null)]
  /\ UNCHANGED <<dbs, native, issued, nextToken, nextUuid, started, faults, loggedOut>>

\* The last step and, in the same callback, the completion callback's response.
createJanusSession(r) ==
  /\ reqs[r].kind = "login" /\ reqs[r].pc = "createJanusSession"
  /\ \E f \in Transport :
       /\ faults' = Faulted(f)
       /\ LET q == Fault(Call(reqs[r], "putDocument:janus_session"), f)
              janusSession == [user |-> q.userDoc.name]
              err == IF f THEN 500 ELSE PutDocumentErr(dbs, "janus_session", q.token, janusSession)
          IN IF err = 0
             THEN /\ dbs' = PutDocument(dbs, "janus_session", q.token, janusSession)
                  /\ loggedOut' = loggedOut \ {q.token}
                  /\ reqs' = [reqs EXCEPT ![r] = LoginDone(q, Null)]
             ELSE /\ reqs' = [reqs EXCEPT ![r] = LoginDone(q, ErrObj(400, "error_creating_janus_session"))]
                  /\ UNCHANGED <<dbs, loggedOut>>
  /\ UNCHANGED <<native, issued, nextToken, nextUuid, started>>

\* ------------------------------------------------- gateway-session validation

\* The tenant database of bob under the app registered at K1.
TenantKey == CurrentDb([dev |-> "alice@example.com", name |-> "todo"], "bob@example.com")

\* Keys a client may name in PUT and DELETE /app/:key/: an app key, or the name
\* of a tenant database.
RouteKeys == AppKeys \cup {TenantKey}

\* Session cookies a client may present: none, one the store never issued, or an issued token.
Cookies == {Undefined, "bogus"} \cup {Token(n) : n \in 1..nextToken}

\* The waterfall's completion callback of PUT /app/:key/.
PutDone(q, err) ==
  IF err = Null
  THEN sendJSON(q, 201, [ok |-> TRUE], <<>>)
  ELSE sendJSON([q EXCEPT !.err = err], 400, [error |-> "error_creating_app"], <<>>)

\* The waterfall's completion callback of DELETE /app/:key/.
DeleteDone(q, err) ==
  IF err = Null
  THEN sendJSON(q, 200, [ok |-> TRUE], <<>>)
  ELSE sendJSON([q EXCEPT !.err = err], 400, [error |-> "error_deleting_app"], <<>>)

\* The completion callback of the waterfall getJanusSession is the first task of.
AppDone(q, err) == IF q.kind = "put" THEN PutDone(q, err) ELSE DeleteDone(q, err)

\* What getJanusSession hands its callback after the record was read without
\* error: "check" stands for going on to checkCouchSession.
JanusAfterGet(f, doc) == IF ~f /\ doc # Null THEN "check" ELSE "session_expired"

\* Variant of JanusAfterCheck: the answer of the native check is not looked at.
JanusAfterCheck_ignoresAuth(f, authenticated) ==
  IF ~f THEN "valid" ELSE "error_checking_session"

\* What getJanusSession hands its callback after the native check.
JanusAfterCheck(f, authenticated) ==
  IF ~f
  THEN IF authenticated THEN "valid" ELSE "session_expired"
  ELSE "error_checking_session"

\* getJanusSession up to its native check: the read of the record and its callback.
getJanusSession(r) ==
  /\ reqs[r].kind \in {"put", "delete"} /\ reqs[r].pc = "getJanusSession"
  /\ \E f \in Transport :
       /\ faults' = Faulted(f)
       /\ LET q0 == Fault(Call(reqs[r], "getDocument:janus_session"), f)
              doc == GetDocument(dbs, "janus_session", q0.cookie)
              q == [q0 EXCEPT !.sawRecord = IF doc # Null THEN "present" ELSE "absent"]
          IN reqs' = [reqs EXCEPT ![r] =
                        IF JanusAfterGet(f, doc) = "check"
                        THEN [q EXCEPT !.sessionDoc = doc, !.pc = "getJanusSession_check"]
                        ELSE AppDone([q EXCEPT !.janus = "invalid",
                                               !.sawAuth = IF q0.cookie \in native THEN "live" ELSE "dead"],
                                     ErrObj(401, "session_expired"))]
  /\ UNCHANGED <<dbs, native, issued, nextToken, nextUuid, started, loggedOut>>

\* Variant of getJanusSession_check: the waterfall goes on to its next task
\* although the native check did not validate the session.
getJanusSession_check_continues(r) ==
  /\ reqs[r].kind \in {"put", "delete"} /\ reqs[r].pc = "getJanusSession_check"
  /\ \E f \in Transport :
       /\ faults' = Faulted(f)
       /\ LET q0 == Fault(Call(reqs[r], "checkCouchSession"), f)
              authenticated == q0.cookie \in native
              q == [q0 EXCEPT !.sawAuth = IF authenticated THEN "live" ELSE "dead"]
              out == JanusAfterCheck(f, authenticated)
          IN reqs' = [reqs EXCEPT ![r] =
                        [q EXCEPT !.janus = IF out = "valid" THEN "valid" ELSE "invalid",
                                  !.pc = IF q.kind = "put" THEN "put_createDatabase"
                                                           ELSE "delete_getDocument"]]
  /\ UNCHANGED <<dbs, native, issued, nextToken, nextUuid, started, loggedOut>>

\* The native check of getJanusSession and its callback.
getJanusSession_check(r) ==
  /\ reqs[r].kind \in {"put", "delete"} /\ reqs[r].pc = "getJanusSession_check"
  /\ \E f \in Transport :
       /\ faults' = Faulted(f)
       /\ LET q0 == Fault(Call(reqs[r], "checkCouchSession"), f)
              authenticated == q0.cookie \in native
              q == [q0 EXCEPT !.sawAuth = IF authenticated THEN "live" ELSE "dead"]
              out == JanusAfterCheck(f, authenticated)
          IN reqs' = [reqs EXCEPT ![r] =
                        IF out = "valid"
                        THEN [q EXCEPT !.janus = "valid",
                                       !.pc = IF q.kind = "put" THEN "put_createDatabase"
                                                                ELSE "delete_getDocument"]
                        ELSE AppDone([q EXCEPT !.janus = "invalid"],
                                     ErrObj(IF out = "session_expired" THEN 401 ELSE 400, out))]
  /\ UNCHANGED <<dbs, native, issued, nextToken, nextUuid, started, loggedOut>>

\* ----------------------------------------------------------- POST /logout/

\* Variant of LogoutDone: an error of the waterfall is reported to the client.
LogoutDone_reportsErr(q, err) ==
  IF err = Null
  THEN sendJSON(q, 200, [ok |-> TRUE], <<>>)
  ELSE sendJSON([q EXCEPT !.err = err], 400, [error |-> "error_logging_out"], <<>>)

\* The waterfall's completion callback of the logout: the error is ignored.
LogoutDone(q, err) == sendJSON([q EXCEPT !.err = err], 200, [ok |-> TRUE], <<>>)

PostLogout(r) ==
  /\ Free(r)
  /\ \E c \in Cookies :
       LET q == [IdleReq EXCEPT !.kind = "logout", !.cookie = c]
       IN reqs' = [reqs EXCEPT ![r] =
                     IF c = Undefined
                     THEN sendJSON(q, 200, [ok |-> TRUE], <<>>)
                     ELSE [q EXCEPT !.pc = "logout_deleteDocument"]]
  /\ started' = started + 1
  /\ UNCHANGED <<dbs, native, issued, nextToken, nextUuid, faults, loggedOut>>

\* First task of the logout: the gateway session record is deleted; an error
\* ends the waterfall.
logout_deleteDocument(r) ==
  /\ reqs[r].kind = "logout" /\ reqs[r].pc = "logout_deleteDocument"
  /\ \E f \in Transport :
       /\ faults' = Faulted(f)
       /\ LET q0 == Fault(Call(reqs[r], "deleteDocument:janus_session"), f)
              q == [q0 EXCEPT !.sawRecord =
                      IF GetDocument(dbs, "janus_session", q0.cookie) # Null THEN "present" ELSE "absent"]
              err == IF f THEN 500 ELSE DeleteDocumentErr(dbs, "janus_session", q.cookie)
          IN IF err = 0
             THEN /\ dbs' = DeleteDocument(dbs, "janus_session", q.cookie)
                  /\ reqs' = [reqs EXCEPT ![r] = [q EXCEPT !.pc = "logout_deleteCouchSession"]]
                  /\ UNCHANGED loggedOut
             ELSE /\ reqs' = [reqs EXCEPT ![r] = LogoutDone(q, [code |-> err])]
                  /\ loggedOut' = loggedOut \cup {q.cookie}
                  /\ UNCHANGED dbs
  /\ UNCHANGED <<native, issued, nextToken, nextUuid, started>>

\* Second task of the logout: the native session is invalidated.
logout_deleteCouchSession(r) ==
  /\ reqs[r].kind = "logout" /\ reqs[r].pc = "logout_deleteCouchSession"
  /\ \E f \in Transport :
       /\ faults' = Faulted(f)
       /\ LET q == Fault(Call(reqs[r], "deleteCouchSession"), f)
          IN /\ native' = IF f THEN native ELSE native \ {q.cookie}
             /\ reqs' = [reqs EXCEPT ![r] = LogoutDone(q, IF f THEN [code |-> 500] ELSE Null)]
             /\ loggedOut' = loggedOut \cup {q.cookie}
  /\ UNCHANGED <<dbs, issued, nextToken, nextUuid, started>>

\* ---------------------------------------------------------- PUT /app/:key/

PutApp(r) ==
  /\ Free(r)
  /\ \E c \in Cookies, k \in RouteKeys, n \in AppNames :
       LET q == [IdleReq EXCEPT !.kind = "put", !.cookie = c, !.appkey = k, !.name = n]
       IN reqs' = [reqs EXCEPT ![r] =
                     IF c = Undefined
                     THEN sendJSON(q, 401, [error |-> "priviliges_required"], <<>>)
                     ELSE [q EXCEPT !.pc = "getJanusSession"]]
  /\ started' = started + 1
  /\ UNCHANGED <<dbs, native, issued, nextToken, nextUuid, faults, loggedOut>>

\* Variant of put_createDatabase: a database that exists already is taken as
\* created, as ensureDatabase does.
put_createDatabase_tolerant(r) ==
  /\ reqs[r].kind = "put" /\ reqs[r].pc = "put_createDatabase"
  /\ \E f \in Transport :
       /\ faults' = Faulted(f)
       /\ LET q == Fault(Call(reqs[r], "createDatabase"), f)
              err == IF f THEN 500 ELSE CreateDatabaseErr(dbs, q.appkey)
          IN /\ dbs' = IF err = 0 THEN CreateDatabase(dbs, q.appkey) ELSE dbs
             /\ reqs' = [reqs EXCEPT ![r] =
                           IF err = 0 \/ err = 412
                           THEN [q EXCEPT !.pc = "put_secureDatabase"]
                           ELSE PutDone(q, [code |-> err])]
  /\ UNCHANGED <<native, issued, nextToken, nextUuid, started, loggedOut>>

put_createDatabase(r) ==
  /\ reqs[r].kind = "put" /\ reqs[r].pc = "put_createDatabase"
  /\ \E f \in Transport :
       /\ faults' = Faulted(f)
       /\ LET q == Fault(Call(reqs[r], "createDatabase"), f)
              err == IF f THEN 500 ELSE CreateDatabaseErr(dbs, q.appkey)
          IN /\ dbs' = IF err = 0 THEN CreateDatabase(dbs, q.appkey) ELSE dbs
             /\ reqs' = [reqs EXCEPT ![r] =
                           IF err = 0
                           THEN [q EXCEPT !.pc = "put_secureDatabase"]
                           ELSE PutDone(q, [code |-> err])]
  /\ UNCHANGED <<native, issued, nextToken, nextUuid, started, loggedOut>>

put_secureDatabase(r) ==
  /\ reqs[r].kind = "put" /\ reqs[r].pc = "put_secureDatabase"
  /\ \E f \in Transport :
       /\ faults' = Faulted(f)
       /\ LET q == Fault(Call(reqs[r], "secureDatabase"), f)
              err == IF f THEN 500 ELSE SecureDatabaseErr(dbs, q.appkey)
          IN /\ dbs' = IF err = 0 THEN SecureDatabase(dbs, q.appkey, q.sessionDoc.user) ELSE dbs
             /\ reqs' = [reqs EXCEPT ![r] =
                           IF err = 0
                           THEN [q EXCEPT !.pc = "put_putDocument"]
                           ELSE PutDone(q, [code |-> err])]
  /\ UNCHANGED <<native, issued, nextToken, nextUuid, started, loggedOut>>

\* The app record of a PUT: the session's user and the body's name, or "".
AppData(sessionDoc, name) ==
  [dev |-> sessionDoc.user, name |-> IF name = Undefined THEN "" ELSE name]

put_putDocument(r) ==
  /\ reqs[r].kind = "put" /\ reqs[r].pc = "put_putDocument"
  /\ \E f \in Transport :
       /\ faults' = Faulted(f)
       /\ LET q == Fault(Call(reqs[r], "putDocument:app"), f)
              appData == AppData(q.sessionDoc, q.name)
              err == IF f THEN 500 ELSE PutDocumentErr(dbs, q.appkey, "data", appData)
          IN /\ dbs' = IF err = 0 THEN PutDocument(dbs, q.appkey, "data", appData) ELSE dbs
             /\ reqs' = [reqs EXCEPT ![r] = PutDone(q, IF err = 0 THEN Null ELSE [code |-> err])]
  /\ UNCHANGED <<native, issued, nextToken, nextUuid, started, loggedOut>>

\* ------------------------------------------------------- DELETE /app/:key/

DeleteApp(r) ==
  /\ Free(r)
  /\ \E c \in Cookies, k \in RouteKeys :
       LET q == [IdleReq EXCEPT !.kind = "delete", !.cookie = c, !.appkey = k]
       IN reqs' = [reqs EXCEPT ![r] =
                     IF c = Undefined
                     THEN sendJSON(q, 401, [error |-> "privileges_required"], <<>>)
                     ELSE [q EXCEPT !.pc = "getJanusSession"]]
  /\ started' = started + 1
  /\ UNCHANGED <<dbs, native, issued, nextToken, nextUuid, faults, loggedOut>>

\* Variant of DeleteAllowed: the record's dev is not compared with the session's user.
DeleteAllowed_anyUser(f, appDoc, sessionDoc) == ~(f \/ appDoc = Null)

\* The authorization of a delete: the app record is read and its dev compared.
DeleteAllowed(f, appDoc, sessionDoc) ==
  ~(f \/ appDoc = Null \/ appDoc.dev # sessionDoc.user)

delete_getDocument(r) ==
  /\ reqs[r].kind = "delete" /\ reqs[r].pc = "delete_getDocument"
  /\ \E f \in Transport :
       /\ faults' = Faulted(f)
       /\ LET q0 == Fault(Call(reqs[r], "getDocument:app"), f)
              appDoc == GetDocument(dbs, q0.appkey, "data")
              q == [q0 EXCEPT !.appDoc = appDoc]
          IN reqs' = [reqs EXCEPT ![r] =
                        IF DeleteAllowed(f, appDoc, q.sessionDoc)
                        THEN [q EXCEPT !.pc = "delete_deleteDatabase"]
                        ELSE DeleteDone(q, [flag |-> TRUE])]
  /\ UNCHANGED <<dbs, native, issued, nextToken, nextUuid, started, loggedOut>>

\* Variant of delete_deleteDatabase: only the app record is deleted, the
\* database stays.
delete_deleteDatabase_recordOnly(r) ==
  /\ reqs[r].kind = "delete" /\ reqs[r].pc = "delete_deleteDatabase"
  /\ \E f \in Transport :
       /\ faults' = Faulted(f)
       /\ LET q == Fault(Call(reqs[r], "deleteDatabase"), f)
              err == IF f THEN 500 ELSE DeleteDocumentErr(dbs, q.appkey, "data")
          IN /\ dbs' = IF err = 0 THEN DeleteDocument(dbs, q.appkey, "data") ELSE dbs
             /\ reqs' = [reqs EXCEPT ![r] = DeleteDone(q, IF err = 0 THEN Null ELSE [code |-> err])]
  /\ UNCHANGED <<native, issued, nextToken, nextUuid, started, loggedOut>>

delete_deleteDatabase(r) ==
  /\ reqs[r].kind = "delete" /\ reqs[r].pc = "delete_deleteDatabase"
  /\ \E f \in Transport :
       /\ faults' = Faulted(f)
       /\ LET q == Fault(Call(reqs[r], "deleteDatabase"), f)
              err == IF f THEN 500 ELSE DeleteDatabaseErr(dbs, q.appkey)
          IN /\ dbs' = IF err = 0 THEN DeleteDatabase(dbs, q.appkey) ELSE dbs
             /\ reqs' = [reqs EXCEPT ![r] = DeleteDone(q, IF err = 0 THEN Null ELSE [code |-> err])]
  /\ UNCHANGED <<native, issued, nextToken, nextUuid, started, loggedOut>>

\* ------------------------------------------------------------ the server

\* The store ends a native session on its own (the session's timeout).
ExpireCouchSession ==
  /\ \E t \in native : native' = native \ {t}
  /\ UNCHANGED <<dbs, issued, nextToken, nextUuid, reqs, started, faults, loggedOut>>

Step(r) ==
    \/ PostLogin(r)
    \/ verifyAssert(r)
    \/ ensureUser(r)
    \/ ensureUser_put(r)
    \/ verifyApp(r)
    \/ ensureDatabase(r)
    \/ ensureUserSecurity(r)
    \/ createSessionToken(r)
    \/ createJanusSession(r)
    \/ PostLogout(r)
    \/ logout_deleteDocument(r)
    \/ logout_deleteCouchSession(r)
    \/ PutApp(r)
    \/ DeleteApp(r)
    \/ getJanusSession(r)
    \/ getJanusSession_check(r)
    \/ put_createDatabase(r)
    \/ put_secureDatabase(r)
    \/ put_putDocument(r)
    \/ delete_getDocument(r)
    \/ delete_deleteDatabase(r)

Next == (\E r \in Slots : Step(r)) \/ ExpireCouchSession

Spec == Init /\ [][Next]_vars

\* The store after one login of alice at K1 and nothing else: her user record,
\* her tenant database secured to her, and the gateway session of her token.
SessionDbs ==
  LET alice == "alice@example.com"
      u == EnsureUserDoc(Null, alice, Uuid(1))
      d1 == PutDocument(InitDbs, "_users", u._id, u)
      name == CurrentDb(GetDocument(d1, "K1", "data"), alice)
      d2 == SecureDatabase(CreateDatabase(d1, name), name, alice)
  IN PutDocument(d2, "janus_session", Token(1), [user |-> alice])

\* The server with alice logged in, no request in flight and a store whose
\* calls no longer fail in transport.
InitSession ==
  /\ dbs = SessionDbs
  /\ native = {Token(1)}
  /\ issued = (Token(1) :> "alice@example.com")
  /\ nextToken = 1
  /\ nextUuid = 1
  /\ reqs = [r \in Slots |-> IdleReq]
  /\ started = 0
  /\ faults = MaxFaults
  /\ loggedOut = {}

SpecSession == InitSession /\ [][Next]_vars

\* The store of InitSession is one the server reaches from its start.
SessionReached ==
  dbs = SessionDbs /\ native = {Token(1)} /\ nextToken = 1 /\ nextUuid = 1

\* ------------------------------------------------------------ properties

\* The handler of the request in slot r has finished.
Finished(r) == reqs[r].kind # "idle" /\ reqs[r].pc = "done"

\* The one response of a finished request is the given status and body.
Answered(r, status, body) ==
  /\ Len(reqs[r].resp) = 1
  /\ reqs[r].resp[1].status = status
  /\ reqs[r].resp[1].body = body

\* The calls of the login waterfall, in the order of its tasks.
LoginOrder ==
  <<"verifyAssert", "getDocument:_users", "putDocument:_users", "getDocument:app",
    "createDatabase", "secureDatabase", "createCouchSession", "putDocument:janus_session">>

\* The task of the login waterfall that reports an error kind.
FailStep(kind) ==
  CASE kind = "error_verifying_assertion" -> 1
    [] kind = "error_retrieving_user" -> 2
    [] kind = "error_creating_user" -> 3
    [] kind = "error_verifying_app" -> 4
    [] kind = "error_creating_database" -> 5
    [] kind = "error_securing_database" -> 6
    [] kind = "error_creating_session" -> 7
    [] kind = "error_creating_janus_session" -> 8
    [] OTHER -> 0

\* C1: session validation succeeds exactly when the janus_session record of the
\* token exists and the native check reports the token authenticated: a
\* validation that ended valid read the record and found the token live, and
\* the record names the user the token was issued to at login; a validation
\* with the record absent or the token not authenticated ended invalid; and
\* with the record present, the token live and no call failing, it ended valid.
C1_SessionDuality ==
  \A r \in Slots :
    LET q == reqs[r] IN
    q.janus # "pending" =>
      /\ q.janus = "valid" =>
           /\ q.sawRecord = "present" /\ q.sawAuth = "live"
           /\ q.cookie \in DOMAIN issued
           /\ q.sessionDoc.user = issued[q.cookie]
      /\ (q.sawRecord = "absent" \/ q.sawAuth = "dead") => q.janus = "invalid"
      /\ (q.sawRecord = "present" /\ q.sawAuth = "live" /\ ~q.fault) => q.janus = "valid"

\* C1 witness: a validation that succeeded on a present record and a live token.
C1_Witness ==
  \E r \in Slots :
    reqs[r].janus = "valid" /\ reqs[r].sawRecord = "present" /\ reqs[r].sawAuth = "live"

\* C2: the login pipeline is fail-fast: the calls of a login are a prefix of the
\* pipeline's order; once a call of it has failed the handler has finished with
\* an error; and a login that reported an error made no call after the task
\* that reports it, was answered with the error's status and without a
\* Set-Cookie header, and (failing before the native session task) was issued
\* no native token.
C2_FailFast ==
  \A r \in Slots :
    LET q == reqs[r] IN
    q.kind = "login" =>
      /\ \E k \in 0..Len(LoginOrder) : q.calls = SubSeq(LoginOrder, 1, k)
      /\ q.fault => q.pc = "done" /\ q.err # Null
      /\ q.err # Null =>
           /\ q.pc = "done"
           /\ Len(q.calls) = FailStep(q.err.json.error)
           /\ Len(q.resp) = 1
           /\ q.resp[1].status = q.err.status /\ q.resp[1].status # 200
           /\ q.resp[1].body = q.err.json
           /\ "Set-Cookie" \notin DOMAIN q.resp[1].headers
           /\ FailStep(q.err.json.error) < 7 => q.token = Undefined

\* C2 witness: securing failed after the tenant database had been created.
C2_Witness ==
  \E r \in Slots :
    /\ reqs[r].kind = "login" /\ reqs[r].pc = "done"
    /\ reqs[r].err = ErrObj(400, "error_securing_database")
    /\ reqs[r].userDoc.currentDb \in DOMAIN dbs
    /\ reqs[r].token = Undefined

\* The step answers the login in slot r with 200.
Answers200(r) ==
  /\ reqs[r].kind = "login" /\ reqs[r].pc # "done" /\ Len(reqs[r].resp) = 0
  /\ reqs'[r].kind = "login" /\ Len(reqs'[r].resp) = 1 /\ reqs'[r].resp[1].status = 200

\* C3: whenever a login is answered 200, all tasks of the pipeline have made
\* their calls in the fixed order (user record written, then database created,
\* then secured, then native session issued, then gateway session recorded) and
\* none failed; and at the moment of the response the user record of the
\* verified email is stored, the response names the resolved tenant database,
\* the native token was issued to that user, and the janus_session record keyed
\* by the token of the Set-Cookie header names the user of the response's name.
C3_OrderedSuccess ==
  [][\A r \in Slots :
       Answers200(r) =>
         LET q == reqs'[r]
             rsp == q.resp[1]
             tok == rsp.headers["Set-Cookie"][2]
             email == q.personaBody.email
         IN /\ q.calls = LoginOrder /\ ~q.fault /\ q.err = Null
            /\ rsp.body.name = email
            /\ GetDocument(dbs', "_users", createUserDoc(email)._id) # Null
            /\ rsp.body.db = HostUrl \o "db/" \o q.userDoc.currentDb
            /\ tok \in DOMAIN issued' /\ issued'[tok] = email
            /\ rsp.headers["Set-Cookie"] = <<"AuthSession=", tok, "; Path=/; HttpOnly">>
            /\ GetDocument(dbs', "janus_session", tok) # Null
            /\ GetDocument(dbs', "janus_session", tok).user = rsp.body.name
    ]_vars

\* C3 witness: a login answered 200.
C3_Witness ==
  \E r \in Slots :
    /\ reqs[r].kind = "login" /\ Len(reqs[r].resp) = 1 /\ reqs[r].resp[1].status = 200
    /\ reqs[r].calls = LoginOrder

\* The user records of the store.
UserDocs == dbs["_users"].docs

\* C4: the secret of a stored user record never changes: every step keeps each
\* stored record, its secret and the key derived from it; a stored secret is
\* the uuid drawn by the login that created the record; and a login that found
\* the record writes it back with the revision it read and the stored secret.
C4_SecretOnce ==
  [][/\ \A id \in DOMAIN UserDocs :
          /\ id \in DOMAIN UserDocs'
          /\ UserDocs'[id].thepassword = UserDocs[id].thepassword
          /\ UserDocs'[id].derived_key = UserDocs[id].derived_key
     /\ \A id \in DOMAIN UserDocs' :
          /\ UserDocs'[id].thepassword = UserDocs'[id].derived_key
          /\ \E n \in 1..nextUuid' : UserDocs'[id].thepassword = Uuid(n)
     /\ \A r \in Slots :
          LET q == reqs'[r]
              id == q.userDoc._id
          IN /\ (reqs[r].pc = "ensureUser" /\ q.pc = "ensureUser_put" /\ id \in DOMAIN UserDocs) =>
                  /\ "_rev" \in DOMAIN q.userDoc
                  /\ q.userDoc._rev = UserDocs[id]._rev
                  /\ q.userDoc.thepassword = UserDocs[id].thepassword
                  /\ "password" \notin DOMAIN q.userDoc
             /\ (reqs[r].pc = "ensureUser_put" /\ q.pc = "verifyApp" /\ id \in DOMAIN UserDocs) =>
                  /\ q.userDoc._rev = UserDocs[id]._rev
                  /\ UserDocs'[id]._rev = UserDocs[id]._rev + 1
    ]_vars

\* C4 witness: a record written a second time, by a later login of its user.
C4_Witness ==
  \E id \in DOMAIN UserDocs : UserDocs[id]._rev >= 2

\* C5 (as claimed): an app create or delete whose session validation failed
\* because the record is missing or the token is not authenticated is answered
\* 401 session_expired.
C5_SessionExpired401 ==
  \A r \in Slots :
    LET q == reqs[r] IN
    (q.kind \in {"put", "delete"} /\ Finished(r) /\ q.janus = "invalid" /\ ~q.fault
       /\ (q.sawRecord = "absent" \/ q.sawAuth = "dead")) =>
      Answered(r, 401, [error |-> "session_expired"])

\* C6 (as claimed): an app create or delete without a session cookie is
\* answered 401 privileges_required and makes no call to the store.
C6_PrivilegesRequired ==
  \A r \in Slots :
    LET q == reqs[r] IN
    (q.kind \in {"put", "delete"} /\ q.cookie = Undefined) =>
      /\ Answered(r, 401, [error |-> "privileges_required"])
      /\ q.calls = <<>>

\* C7 (as claimed): every request is answered exactly once: a handler that has
\* finished has sent one response, with a status and a JSON body.
C7_AlwaysAnswered ==
  \A r \in Slots :
    Finished(r) =>
      /\ Len(reqs[r].resp) = 1
      /\ \/ "error" \in DOMAIN reqs[r].resp[1].body
         \/ "ok" \in DOMAIN reqs[r].resp[1].body

\* C8: a logout is always answered 200 {ok: true}, whatever its cookie and
\* whatever the outcome of deleting the record and of ending the native session.
C8_LogoutAlwaysOk ==
  \A r \in Slots :
    (reqs[r].kind = "logout" /\ Finished(r)) =>
      /\ Answered(r, 200, [ok |-> TRUE])
      /\ "Set-Cookie" \notin DOMAIN reqs[r].resp[1].headers

\* C8 witness: a logout answered after a call of it failed on a live token.
C8_Witness ==
  \E r \in Slots :
    /\ reqs[r].kind = "logout" /\ Finished(r) /\ reqs[r].fault
    /\ reqs[r].cookie \in DOMAIN issued
    /\ Answered(r, 200, [ok |-> TRUE])

\* C9 (as claimed): a logout that carried a token whose record existed has
\* deleted the record and then ended the native session, and a token whose
\* logout has been answered fails validation until a login records it again.
C9_RevokedAfterLogout ==
  /\ \A r \in Slots :
       (reqs[r].kind = "logout" /\ Finished(r) /\ reqs[r].sawRecord = "present") =>
         reqs[r].calls = <<"deleteDocument:janus_session", "deleteCouchSession">>
  /\ \A t \in loggedOut :
       ~(GetDocument(dbs, "janus_session", t) # Null /\ t \in native)

\* A delete with a valid session that read the app record of its key.
DeleteChecked(r) ==
  /\ reqs[r].kind = "delete" /\ Finished(r) /\ reqs[r].janus = "valid"
  /\ Len(reqs[r].calls) >= 3

\* The delete in slot r was refused because the app record is another user's.
NotYours(r) ==
  DeleteChecked(r) /\ reqs[r].appDoc # Null /\ reqs[r].appDoc.dev # reqs[r].sessionDoc.user

\* The delete in slot r was refused because its key has no app record.
NotFound(r) == DeleteChecked(r) /\ reqs[r].appDoc = Null

\* C10: a delete by a valid session whose user is not the record's dev is
\* refused with 400 error_deleting_app and does not delete the database, and
\* its response equals that of a delete of a key without app record.
C10_DeleteIndistinguishable ==
  /\ \A r \in Slots :
       (NotYours(r) \/ NotFound(r)) =>
         /\ Answered(r, 400, [error |-> "error_deleting_app"])
         /\ reqs[r].calls =
              <<"getDocument:janus_session", "checkCouchSession", "getDocument:app">>
  /\ \A r1, r2 \in Slots :
       (NotYours(r1) /\ NotFound(r2)) => reqs[r1].resp = reqs[r2].resp

\* C10 witness: a refused delete of another user's app beside a refused delete
\* of a key without app record.
C10_Witness ==
  \E r1, r2 \in Slots :
    /\ NotYours(r1) /\ NotFound(r2)
    /\ reqs[r1].appkey \in DOMAIN dbs

\* The request in slot r is a DELETE whose session validation ended valid.
ValidDelete(r) == reqs[r].kind = "delete" /\ reqs[r].janus = "valid"

\* C11: a DELETE /app/K/ with a valid session, none of whose calls fails in
\* transport, goes on to delete the database when it reads an app record whose
\* dev is the session's user; its deletion of a database that is still there
\* answers 200 {ok: true} and leaves neither the database nor the app record in
\* it; and when the database at K is gone, the read of the record answers
\* 400 {error: "error_deleting_app"} and changes nothing.
C11_CreateDeleteDelete ==
  [][\A r \in Slots :
       (ValidDelete(r) /\ reqs'[r] # reqs[r] /\ ~reqs'[r].fault) =>
         LET k == reqs[r].appkey
             rec == GetDocument(dbs, k, "data")
         IN /\ (reqs[r].pc = "delete_getDocument" /\ rec # Null /\ rec.dev = reqs[r].sessionDoc.user)
                 => reqs'[r].pc = "delete_deleteDatabase"
            /\ (reqs[r].pc = "delete_getDocument" /\ k \notin DOMAIN dbs)
                 => Answered(r, 400, [error |-> "error_deleting_app"])' /\ dbs' = dbs
            /\ (reqs[r].pc = "delete_deleteDatabase" /\ k \in DOMAIN dbs)
                 => /\ Answered(r, 200, [ok |-> TRUE])'
                    /\ k \notin DOMAIN dbs'
                    /\ GetDocument(dbs', k, "data") = Null]_vars

\* C11 witness: the app K2 did not exist at the start; a PUT with alice's
\* session created it and answered 201, and a DELETE with the same session
\* answered 200 and the database is gone.
C11_Witness ==
  \E r, s \in Slots :
    /\ reqs[r].kind = "put" /\ reqs[r].appkey = "K2" /\ Answered(r, 201, [ok |-> TRUE])
    /\ reqs[s].kind = "delete" /\ reqs[s].appkey = "K2" /\ Answered(s, 200, [ok |-> TRUE])
    /\ reqs[r].cookie = reqs[s].cookie
    /\ "K2" \notin DOMAIN dbs

\* The login in slot r has resolved its tenant database.
Resolved(r) == reqs[r].kind = "login" /\ "currentDb" \in DOMAIN reqs[r].userDoc

\* C12: two logins that resolved different (app key, user email) pairs hold
\* different tenant database names.
C12_TenantIsolation ==
  \A r, s \in Slots :
    (/\ Resolved(r) /\ Resolved(s)
     /\ <<reqs[r].appkey, reqs[r].userDoc.name>> # <<reqs[s].appkey, reqs[s].userDoc.name>>)
      => reqs[r].userDoc.currentDb # reqs[s].userDoc.currentDb

\* The logins in slots r and s were answered 200 for the same app key and the
\* same email, and read the same app record.
SameLogin(r, s) ==
  /\ reqs[r].kind = "login" /\ reqs[s].kind = "login"
  /\ Finished(r) /\ Finished(s)
  /\ Len(reqs[r].resp) = 1 /\ reqs[r].resp[1].status = 200
  /\ Len(reqs[s].resp) = 1 /\ reqs[s].resp[1].status = 200
  /\ reqs[r].appkey = reqs[s].appkey
  /\ reqs[r].userDoc.name = reqs[s].userDoc.name
  /\ reqs[r].appDoc = reqs[s].appDoc

\* C13: two logins answered 200 for the same (app key, email) that read the
\* same app record carry the same database locator; and a login that reaches
\* ensureDatabase when its database exists, its call not failing in transport,
\* goes on to ensureUserSecurity and leaves the store as it was.
C13_LoginIdempotent ==
  [][/\ \A r, s \in Slots :
          SameLogin(r, s)' => reqs'[r].resp[1].body.db = reqs'[s].resp[1].body.db
     /\ \A r \in Slots :
          (/\ reqs[r].kind = "login" /\ reqs[r].pc = "ensureDatabase"
           /\ reqs'[r] # reqs[r] /\ ~reqs'[r].fault
           /\ reqs[r].userDoc.currentDb \in DOMAIN dbs)
            => reqs'[r].pc = "ensureUserSecurity" /\ dbs' = dbs]_vars

\* C13 witness: the only two requests so far are logins for the same app key
\* and email, both answered 200 with the same locator, and the database has
\* been secured: the login that came second at ensureDatabase found it there.
C13_Witness ==
  \E r, s \in Slots :
    /\ r # s /\ SameLogin(r, s) /\ started = 2
    /\ reqs[r].resp[1].body.db = reqs[s].resp[1].body.db
    /\ reqs[r].userDoc.currentDb \in DOMAIN dbs
    /\ dbs[reqs[r].userDoc.currentDb].writer = reqs[r].userDoc.name

\* The login in slot r has secured the tenant database it resolved.
Secured(r) ==
  /\ reqs[r].kind = "login"
  /\ reqs[r].pc = "createSessionToken" \/ Len(reqs[r].calls) >= 7

\* C14: a tenant database that a login has secured has, while it exists, the
\* user of that login as its sole permitted writer.
C14_TenantWriter ==
  \A r \in Slots :
    (Secured(r) /\ reqs[r].userDoc.currentDb \in DOMAIN dbs)
      => dbs[reqs[r].userDoc.currentDb].writer = reqs[r].userDoc.name

\* C15: whether or not another login created its database first, a login
\* whose createDatabase call does not fail in transport leaves ensureDatabase
\* for ensureUserSecurity, never with error_creating_database; and its
\* secureDatabase call on the database, not failing in transport, makes the
\* login's user the permitted writer, which changes nothing when an earlier
\* login of that user has set the policy already.
C15_CreateRace ==
  [][\A r \in Slots :
       (reqs[r].kind = "login" /\ reqs'[r] # reqs[r] /\ ~reqs'[r].fault) =>
         LET db == reqs[r].userDoc.currentDb
         IN /\ reqs[r].pc = "ensureDatabase"
                 => reqs'[r].pc = "ensureUserSecurity" /\ db \in DOMAIN dbs'
            /\ (reqs[r].pc = "ensureUserSecurity" /\ db \in DOMAIN dbs)
                 => /\ reqs'[r].pc = "createSessionToken"
                    /\ dbs'[db].writer = reqs[r].userDoc.name
                    /\ dbs[db].writer = reqs[r].userDoc.name => dbs' = dbs]_vars

\* C15 witness: the only two requests so far are logins for the same app key
\* and email, in flight together; both made the createDatabase call and both
\* have secured the database, which names their user.
C15_Witness ==
  \E r, s \in Slots :
    /\ r # s /\ started = 2
    /\ Secured(r) /\ Secured(s)
    /\ reqs[r].appkey = reqs[s].appkey
    /\ reqs[r].userDoc.currentDb = reqs[s].userDoc.currentDb
    /\ reqs[r].pc = "createSessionToken" /\ reqs[s].pc = "createSessionToken"
    /\ dbs[reqs[r].userDoc.currentDb].writer = reqs[r].userDoc.name

\* The calls of session validation, in order.
JanusCalls == <<"getDocument:janus_session", "checkCouchSession">>

\* C16: a PUT or DELETE /app/:key/ whose session validation has not ended
\* valid has made no call but those of the validation, and its steps leave the
\* store as it was; a PUT creates the database at its key only where none was,
\* its secureDatabase names the session's user, and when it writes the app
\* record it has called createDatabase and then secureDatabase before, and the
\* record's dev is the user the presented token was issued to.
C16_SessionRequired ==
  [][\A r \in Slots :
       (reqs'[r].kind \in {"put", "delete"} /\ reqs'[r] # reqs[r]) =>
         LET q == reqs[r]
             k == q.appkey
         IN /\ reqs'[r].janus # "valid"
                 => /\ dbs' = dbs
                    /\ \A i \in 1..Len(reqs'[r].calls) :
                         i <= 2 /\ reqs'[r].calls[i] = JanusCalls[i]
            /\ (q.pc = "put_createDatabase" /\ dbs' # dbs)
                 => k \notin DOMAIN dbs /\ k \in DOMAIN dbs'
            /\ (q.pc = "put_secureDatabase" /\ dbs' # dbs)
                 => dbs'[k].writer = q.sessionDoc.user
            /\ (q.pc = "put_putDocument" /\ dbs' # dbs)
                 => /\ q.calls = JanusCalls \o <<"createDatabase", "secureDatabase">>
                    /\ q.cookie \in DOMAIN issued
                    /\ GetDocument(dbs, k, "data") = Null
                    /\ GetDocument(dbs', k, "data").dev = issued[q.cookie]]_vars

\* C16 witness: one PUT was answered 401 after its validation failed, having
\* made no call beyond the validation, and another with a valid session has
\* written the record of K2 naming its user.
C16_Witness ==
  \E r, s \in Slots :
    /\ reqs[r].kind = "put" /\ reqs[r].janus = "invalid" /\ Finished(r)
    /\ reqs[r].cookie # Undefined /\ Len(reqs[r].calls) >= 1
    /\ reqs[s].kind = "put" /\ reqs[s].janus = "valid" /\ reqs[s].appkey = "K2"
    /\ Answered(s, 201, [ok |-> TRUE])
    /\ GetDocument(dbs, "K2", "data") # Null
    /\ GetDocument(dbs, "K2", "data").dev = issued[reqs[s].cookie]

\* C17: a PUT /app/:key/ that calls createDatabase for a key whose database
\* exists is answered 400 {error: "error_creating_app"} in that step and leaves
\* the store, with the record and the access-control policy of that database,
\* as it was; and no step changes the dev or the name of an app record whose
\* database it leaves in place.
C17_RecordImmutable ==
  [][/\ \A r \in Slots :
          (/\ reqs[r].kind = "put" /\ reqs[r].pc = "put_createDatabase"
           /\ reqs'[r] # reqs[r]
           /\ reqs[r].appkey \in DOMAIN dbs)
            => Answered(r, 400, [error |-> "error_creating_app"])' /\ dbs' = dbs
     /\ \A k \in DOMAIN dbs \cap DOMAIN dbs' :
          GetDocument(dbs, k, "data") # Null
            => /\ GetDocument(dbs', k, "data") # Null
               /\ GetDocument(dbs', k, "data").dev = GetDocument(dbs, k, "data").dev
               /\ GetDocument(dbs', k, "data").name = GetDocument(dbs, k, "data").name]_vars

\* C17 witness: a user other than the dev of K1 sent a PUT for K1 with a valid
\* session; createDatabase was its last call, the answer is 400
\* error_creating_app, and K1 still has its record and its writer.
C17_Witness ==
  \E r \in Slots :
    /\ reqs[r].kind = "put" /\ reqs[r].appkey = "K1" /\ reqs[r].janus = "valid"
    /\ reqs[r].sessionDoc.user # InitDbs["K1"].docs["data"].dev
    /\ reqs[r].calls = JanusCalls \o <<"createDatabase">> /\ ~reqs[r].fault
    /\ Answered(r, 400, [error |-> "error_creating_app"])
    /\ "K1" \in DOMAIN dbs /\ dbs["K1"] = InitDbs["K1"]

\* The error kind a login reports when the step at the given position fails.
ErrorKindOf(pc) ==
  CASE pc = "verifyAssert" -> "error_verifying_assertion"
    [] pc = "ensureUser" -> "error_retrieving_user"
    [] pc = "ensureUser_put" -> "error_creating_user"
    [] pc = "verifyApp" -> "error_verifying_app"
    [] pc = "ensureDatabase" -> "error_creating_database"
    [] pc = "ensureUserSecurity" -> "error_securing_database"
    [] pc = "createSessionToken" -> "error_creating_session"
    [] pc = "createJanusSession" -> "error_creating_janus_session"
    [] OTHER -> "none"

\* C18: the step in which a login ends with an error answers 400 with the
\* error kind of that step, the first one to fail, as its body; a login is
\* answered 200 only by its last step, createJanusSession, and only when no
\* call of it failed; and a login one of whose calls failed in transport has
\* ended with an error.
C18_FirstFailureReported ==
  [][\A r \in Slots :
       (reqs[r].kind = "login" /\ reqs[r].pc # "done" /\ reqs'[r] # reqs[r]) =>
         /\ reqs'[r].fault => reqs'[r].pc = "done" /\ reqs'[r].err # Null
         /\ reqs'[r].pc = "done" =>
              IF reqs'[r].err # Null
              THEN /\ Len(reqs'[r].resp) = 1 /\ reqs'[r].resp[1].status = 400
                   /\ reqs'[r].resp[1].body = [error |-> ErrorKindOf(reqs[r].pc)]
                   /\ ErrorKindOf(reqs[r].pc) # "none"
                   /\ FailStep(ErrorKindOf(reqs[r].pc)) = Len(reqs'[r].calls)
              ELSE /\ reqs[r].pc = "createJanusSession"
                   /\ Len(reqs'[r].resp) = 1 /\ reqs'[r].resp[1].status = 200]_vars

\* C18 witness: a login for an app key without record, none of whose calls
\* failed in transport, was answered 400 error_verifying_app after its user
\* record had been written.
C18_Witness ==
  \E r \in Slots :
    /\ reqs[r].kind = "login" /\ ~reqs[r].fault
    /\ reqs[r].calls = SubSeq(LoginOrder, 1, 4)
    /\ Answered(r, 400, [error |-> "error_verifying_app"])
    /\ reqs[r].userDoc._id \in DOMAIN UserDocs

\* C19: the step in which a login ends with an error leaves the store's
\* databases and native sessions as they were, so what the steps before it
\* wrote stays, the user record among them; and a login that resolves its
\* database for the same app key, email and app record as one that failed
\* resolves the same name.
C19_NoRollback ==
  [][/\ \A r \in Slots :
          (/\ reqs[r].kind = "login" /\ reqs[r].pc # "done"
           /\ reqs'[r].pc = "done" /\ reqs'[r].err # Null)
            => /\ dbs' = dbs /\ native' = native /\ issued' = issued
               /\ Len(reqs'[r].calls) >= 4 => reqs'[r].userDoc._id \in DOMAIN dbs'["_users"].docs
     /\ \A r, s \in Slots :
          (/\ Resolved(r)' /\ Resolved(s)'
           /\ reqs'[r].err # Null
           /\ reqs'[r].appkey = reqs'[s].appkey
           /\ reqs'[r].userDoc.name = reqs'[s].userDoc.name
           /\ reqs'[r].appDoc = reqs'[s].appDoc)
            => reqs'[r].userDoc.currentDb = reqs'[s].userDoc.currentDb]_vars

\* C19 witness: a login failed at securing its database, which it had created;
\* a later login for the same app key and email, reading the user record the
\* first one wrote, was answered 200 with a locator of that same database.
C19_Witness ==
  \E r, s \in Slots :
    /\ reqs[r].kind = "login" /\ reqs[r].calls = SubSeq(LoginOrder, 1, 6)
    /\ Answered(r, 400, [error |-> "error_securing_database"])
    /\ reqs[s].kind = "login" /\ reqs[s].appkey = reqs[r].appkey
    /\ Len(reqs[s].resp) = 1 /\ reqs[s].resp[1].status = 200
    /\ reqs[s].userDoc.name = reqs[r].userDoc.name
    /\ "_rev" \notin DOMAIN reqs[r].userDoc /\ "_rev" \in DOMAIN reqs[s].userDoc
    /\ reqs[s].resp[1].body.db = HostUrl \o "db/" \o reqs[r].userDoc.currentDb
    /\ dbs[reqs[r].userDoc.currentDb].writer = reqs[s].userDoc.name

\* C20: a DELETE /app/:key/ does not delete a database that a login of a user
\* other than the session's user has resolved and secured as its tenant
\* database.
C20_TenantNotDeletedByOthers ==
  [][\A r, s \in Slots :
       (/\ reqs[r].kind = "delete" /\ reqs[r].pc = "delete_deleteDatabase"
        /\ reqs'[r] # reqs[r]
        /\ Secured(s)
        /\ reqs[s].userDoc.currentDb = reqs[r].appkey
        /\ reqs[s].userDoc.name # reqs[r].sessionDoc.user
        /\ reqs[r].appkey \in DOMAIN dbs)
         => reqs[r].appkey \in DOMAIN dbs']_vars

====
